---- MODULE Spec2Model ----
(***************************************************************************)
(* Model of the jam-detection-and-response control loop of                 *)
(* tempCodeRunnerFile.py: CommunicationChannel (switch_channel,            *)
(* frequency_hopping, recovery_strategy), encrypt_message/decrypt_message  *)
(* and JamResistanceController.monitor_and_respond, driven by the main     *)
(* loop.  Every statement of monitor_and_respond that changes state is one *)
(* action, so the states inside a monitoring cycle are states of the model.*)
(***************************************************************************)
EXTENDS Integers, Sequences, FiniteSets, TLC

\* ------------------------------------------------------------------ bounds
\* Peak amplitudes a waveform may have: 50, 100, ..., 50 * MaxLevel.
MaxLevel == 3
\* Fernet keys that generate_key may return: 1 .. MaxKey.
MaxKey == 2
\* The generator of the random module advances with every draw; its state is
\* kept modulo RngPeriod.
RngPeriod == 2

\* --------------------------------------------------------- program values
\* detect_anomaly(signal, threshold=100)
Threshold == 100
\* message = "Drone communication secured."
Message == "Drone communication secured."
\* self.channels = [1, 2, 3, 4, 5]
InitialChannels == <<1, 2, 3, 4, 5>>

AmpLevels == {50 * k : k \in 1..MaxLevel}
Labels == {0, 1}
\* A waveform, reduced to what the two detectors compute from it: the peak
\* of its amplitude spectrum and the label the trained classifier predicts.
Signals == [amp : AmpLevels, label : Labels]
Keys == 1..MaxKey
Messages == {Message, "Other message."}
\* A Fernet token authenticates under the key that produced it and carries
\* the plaintext it was made from.
Tokens == [key : Keys, msg : Messages]
NoToken == [key |-> 0, msg |-> ""]
InvalidToken == "InvalidToken"

VARIABLES
    channels,          \* CommunicationChannel.channels
    current_channel,   \* CommunicationChannel.current_channel
    encryption,        \* JamResistanceController.encryption (the key)
    pc,                \* position of the main loop / monitor_and_respond
    signal,            \* the waveform passed to monitor_and_respond
    anomaly_detected,  \* local of monitor_and_respond
    max_amplitude,     \* local of monitor_and_respond (<<>> : unset)
    jamming_detected,  \* result of detect_jamming_pattern in this cycle
    new_channel,       \* local of frequency_hopping (0 : unset)
    rng,               \* state of the random module's generator
    encrypted_message, \* local of monitor_and_respond
    ret,               \* value returned to the caller (<<>> : none)
    events             \* calls made so far in this cycle, in order

vars == <<channels, current_channel, encryption, pc, signal, anomaly_detected,
          max_amplitude, jamming_detected, new_channel, rng, encrypted_message,
          ret, events>>

\* ---------------------------------------------------------- pure helpers
\* random.randrange(len(seq)) used as if it were an element
RandomChoiceIndex(seq) == 0..(Len(seq) - 1)

\* random.choice(seq): any element of the list
RandomChoice(seq) == {seq[i] : i \in 1..Len(seq)}

\* the filter of switch_channel left out
AvailableChannelsAll(chs, cur) == chs

\* [ch for ch in self.channels if ch != self.current_channel]
AvailableChannels(chs, cur) == SelectSeq(chs, LAMBDA ch : ch # cur)

\* a loop that never leaves
HopLoopGuardAlways(new, cur) == TRUE

\* a loop that is never entered
HopLoopGuardNever(new, cur) == FALSE

\* while new_channel == self.current_channel
HopLoopGuard(new, cur) == new = cur

\* max_amplitude > threshold
IsAnomalous(amp, threshold) == amp > threshold

\* prediction[0] == 1
IsJamming(label) == label = 1

\* one draw from the generator of the random module
Advance(r) == (r + 1) % RngPeriod

\* cipher_suite.encrypt(message.encode())
Encrypt(key, message) == [key |-> key, msg |-> message]

\* cipher_suite.decrypt(token).decode(): the plaintext when the token
\* authenticates under the key, InvalidToken (raised) otherwise
Decrypt(key, token) == IF token.key = key THEN token.msg ELSE InvalidToken

\* -------------------------------------------------------------- initial
\* State after JamResistanceController() in the main block.
Init ==
    /\ channels = InitialChannels
    /\ current_channel \in RandomChoice(InitialChannels)
    /\ encryption \in Keys
    /\ pc = "idle"
    /\ signal = [amp |-> 50, label |-> 0]
    /\ anomaly_detected = FALSE
    /\ max_amplitude = <<>>
    /\ jamming_detected = FALSE
    /\ new_channel = 0
    /\ rng \in 0..(RngPeriod - 1)
    /\ encrypted_message = NoToken
    /\ ret = <<>>
    /\ events = <<>>

\* -------------------------------------------------------------- actions
\* CommunicationChannel.switch_channel, as called from position `from`,
\* continuing at position `to`.
SwitchChannel(from, to) ==
    /\ pc = from
    /\ current_channel' \in RandomChoice(AvailableChannels(channels, current_channel))
    /\ events' = Append(events, "switch")
    /\ pc' = to
    /\ rng' = Advance(rng)
    /\ UNCHANGED <<channels, encryption, signal, anomaly_detected, max_amplitude,
                   jamming_detected, new_channel, encrypted_message, ret>>

\* main loop: signal = generate_signal(...); controller.monitor_and_respond(signal)
StartCycle ==
    /\ pc \in {"idle", "returned"}
    /\ signal' \in Signals
    /\ pc' = "score"
    /\ anomaly_detected' = FALSE
    /\ max_amplitude' = <<>>
    /\ jamming_detected' = FALSE
    /\ new_channel' = 0
    /\ encrypted_message' = NoToken
    /\ ret' = <<>>
    /\ events' = <<>>
    /\ UNCHANGED <<rng, channels, current_channel, encryption>>

\* anomaly_detected, max_amplitude = detect_anomaly(signal)
DetectAnomaly ==
    /\ pc = "score"
    /\ anomaly_detected' = IsAnomalous(signal.amp, Threshold)
    /\ max_amplitude' = <<signal.amp>>
    /\ events' = Append(events, "score")
    /\ pc' = IF IsAnomalous(signal.amp, Threshold) THEN "switch_anomaly" ELSE "classify"
    /\ UNCHANGED <<rng, channels, current_channel, encryption, signal, jamming_detected,
                   new_channel, encrypted_message, ret>>

\* if anomaly_detected: self.channel.switch_channel()
SwitchOnAnomaly == SwitchChannel("switch_anomaly", "classify")

\* if detect_jamming_pattern(self.detector, signal):
DetectJammingPattern ==
    /\ pc = "classify"
    /\ jamming_detected' = IsJamming(signal.label)
    /\ events' = Append(events, "classify")
    /\ pc' = IF IsJamming(signal.label) THEN "switch_jamming" ELSE "hop_draw"
    /\ UNCHANGED <<rng, channels, current_channel, encryption, signal, anomaly_detected,
                   max_amplitude, new_channel, encrypted_message, ret>>

\*     self.channel.switch_channel()
SwitchOnJamming == SwitchChannel("switch_jamming", "hop_draw")

\* frequency_hopping: new_channel = random.choice(self.channels)
HopDraw ==
    /\ pc = "hop_draw"
    /\ new_channel' \in RandomChoice(channels)
    /\ pc' = "hop_loop"
    /\ rng' = Advance(rng)
    /\ UNCHANGED <<channels, current_channel, encryption, signal, anomaly_detected,
                   max_amplitude, jamming_detected, encrypted_message, ret, events>>

\* frequency_hopping: one iteration of the while loop
HopRedraw ==
    /\ pc = "hop_loop"
    /\ HopLoopGuard(new_channel, current_channel)
    /\ new_channel' \in RandomChoice(channels)
    /\ rng' = Advance(rng)
    /\ UNCHANGED <<channels, current_channel, encryption, pc, signal, anomaly_detected,
                   max_amplitude, jamming_detected, encrypted_message, ret, events>>

\* frequency_hopping: loop exit, self.current_channel = new_channel
HopAssign ==
    /\ pc = "hop_loop"
    /\ ~HopLoopGuard(new_channel, current_channel)
    /\ current_channel' = new_channel
    /\ events' = Append(events, "hop")
    /\ pc' = "recovery"
    /\ UNCHANGED <<rng, channels, encryption, signal, anomaly_detected, max_amplitude,
                   jamming_detected, new_channel, encrypted_message, ret>>

\* self.channel.recovery_strategy(): calls self.switch_channel()
RecoveryStrategy == SwitchChannel("recovery", "encrypt")

\* encrypted_message = encrypt_message(self.encryption, message)
EncryptMessage ==
    /\ pc = "encrypt"
    /\ encrypted_message' = Encrypt(encryption, Message)
    /\ events' = Append(events, "encrypt")
    /\ pc' = "decrypt"
    /\ UNCHANGED <<rng, channels, current_channel, encryption, signal, anomaly_detected,
                   max_amplitude, jamming_detected, new_channel, ret>>

\* a handler around decrypt_message that swallows the exception
DecryptAndReturnSwallow ==
    /\ pc = "decrypt"
    /\ pc' = "returned"
    /\ ret' = max_amplitude
    /\ events' = Append(events, "decrypt")
    /\ UNCHANGED <<rng, channels, current_channel, encryption, signal, anomaly_detected,
                   max_amplitude, jamming_detected, new_channel, encrypted_message>>

\* decrypt_message(self.encryption, encrypted_message); return max_amplitude
\* The result of decrypt_message is not bound to a name.  An exception
\* raised by cipher_suite.decrypt leaves monitor_and_respond (no handler)
\* and the main loop (which handles KeyboardInterrupt only).
DecryptAndReturn ==
    /\ pc = "decrypt"
    /\ IF Decrypt(encryption, encrypted_message) = InvalidToken
       THEN /\ pc' = "raised"
            /\ UNCHANGED <<ret, events>>
       ELSE /\ pc' = "returned"
            /\ ret' = max_amplitude
            /\ events' = Append(events, "decrypt")
    /\ UNCHANGED <<rng, channels, current_channel, encryption, signal, anomaly_detected,
                   max_amplitude, jamming_detected, new_channel, encrypted_message>>

\* Every statement of the cycle after the call.
CycleStep ==
    \/ DetectAnomaly
    \/ SwitchOnAnomaly
    \/ DetectJammingPattern
    \/ SwitchOnJamming
    \/ HopDraw
    \/ HopRedraw
    \/ HopAssign
    \/ RecoveryStrategy
    \/ EncryptMessage
    \/ DecryptAndReturn

Next ==
    \/ StartCycle
    \/ DetectAnomaly
    \/ SwitchOnAnomaly
    \/ DetectJammingPattern
    \/ SwitchOnJamming
    \/ HopDraw
    \/ HopRedraw
    \/ HopAssign
    \/ RecoveryStrategy
    \/ EncryptMessage
    \/ DecryptAndReturn

Spec == Init /\ [][Next]_vars

\* The statements run without interruption once the call is made; the main
\* loop may wait for input for ever.  The random draws of frequency_hopping
\* are fair: a channel other than the current one is eventually drawn.
SpecFair ==
    /\ Spec
    /\ WF_vars(CycleStep)
    /\ SF_vars(HopRedraw /\ new_channel' # current_channel)

\* The statements run on, with no assumption on the draws: the loop of
\* frequency_hopping may draw the current channel for ever.
SpecWeak == Spec /\ WF_vars(CycleStep)

\* decrypt_message applied to every token: the ciphertext handed to it is
\* any token of Tokens (made under another key, or from another plaintext)
\* instead of the one encrypt_message has just returned.
EncryptMessageAnyToken ==
    /\ pc = "encrypt"
    /\ encrypted_message' \in Tokens
    /\ events' = Append(events, "encrypt")
    /\ pc' = "decrypt"
    /\ UNCHANGED <<rng, channels, current_channel, encryption, signal, anomaly_detected,
                   max_amplitude, jamming_detected, new_channel, ret>>

NextFault ==
    \/ StartCycle
    \/ DetectAnomaly
    \/ SwitchOnAnomaly
    \/ DetectJammingPattern
    \/ SwitchOnJamming
    \/ HopDraw
    \/ HopRedraw
    \/ HopAssign
    \/ RecoveryStrategy
    \/ EncryptMessageAnyToken
    \/ DecryptAndReturn

SpecFault == Init /\ [][NextFault]_vars

\* ------------------------------------------------------ derived notions
\* Number of calls of kind e made so far in this cycle.
Count(e) == Cardinality({i \in DOMAIN events : events[i] = e})

\* Channel-changing operations performed so far in this cycle.
Changes == Count("switch") + Count("hop")

\* switch_channel calls made before the hop of this cycle.
ReactiveSwitches ==
    Cardinality({i \in DOMAIN events :
                    /\ events[i] = "switch"
                    /\ \A j \in 1..i : events[j] # "hop"})

\* Position of an event in the order score, classify, switch, hop, secure.
Rank(e) ==
    CASE e = "score" -> 1
      [] e = "classify" -> 2
      [] e = "switch" -> 3
      [] e = "hop" -> 4
      [] e = "encrypt" -> 5
      [] e = "decrypt" -> 6

ChannelSet == {channels[i] : i \in DOMAIN channels}

SwitchPcs == {"switch_anomaly", "switch_jamming", "recovery"}

\* ---------------------------------------------------------------- claims

\* C1: a call of switch_channel or of frequency_hopping leaves a current
\* channel different from the one that was current before the call.
C1_SwitchAndHopLeaveCurrent ==
    [][(pc \in SwitchPcs \cup {"hop_loop"} /\ pc' # pc)
          => current_channel' # current_channel]_vars

\* A cycle in which both switch_channel and frequency_hopping have acted.
C1_Witness == pc = "encrypt" /\ Count("switch") >= 2 /\ Count("hop") = 1

\* C2: in every state, inside a cycle or between cycles, the current
\* channel is one of the channels and the channels are exactly 1..5.
C2_CurrentInFixedChannelSet ==
    /\ Len(channels) = 5
    /\ ChannelSet = {1, 2, 3, 4, 5}
    /\ current_channel \in ChannelSet

\* A state inside a cycle, in the loop of frequency_hopping, after the cycle
\* has switched the channel twice.
C2_Witness ==
    /\ pc = "hop_loop"
    /\ ret = <<>>
    /\ Count("switch") = 2
    /\ new_channel = current_channel

\* C3: at the end of a cycle the reactive switch has run once if a detector
\* fired and not at all otherwise, and a cycle with a detection has changed
\* the channel exactly twice.
C3_SwitchOnceIffDetected ==
    pc = "returned" =>
        /\ ReactiveSwitches = (IF anomaly_detected \/ jamming_detected THEN 1 ELSE 0)
        /\ (anomaly_detected \/ jamming_detected) => Changes = 2

\* C4: a cycle in which neither detector fired ends with one channel change,
\* the hop, the Securing step done and the peak amplitude returned.
C4_CleanCycleHopsOnce ==
    (pc = "returned" /\ ~anomaly_detected /\ ~jamming_detected) =>
        /\ Changes = 1
        /\ Count("hop") = 1
        /\ Count("decrypt") = 1
        /\ ret = max_amplitude

\* C5: the calls of a cycle occur in the order score, classify, switch, hop,
\* secure: no switch before the classifier has run, the hop after every
\* switch, encryption only after the hop.
C5_EventOrder ==
    /\ \A i, j \in DOMAIN events : i < j => Rank(events[i]) <= Rank(events[j])
    /\ \A i \in DOMAIN events :
          events[i] = "switch" => \E j \in 1..i : events[j] = "classify"
    /\ \A i \in DOMAIN events :
          events[i] = "encrypt" => \E j \in 1..i : events[j] = "hop"

\* C6: when decryption fails in the Securing step the cycle ends in the
\* failure, which is final, and no peak amplitude is returned.
C6_DecryptFailureAborts ==
    /\ (pc = "decrypt" /\ encrypted_message.key # encryption)
          => /\ ENABLED (NextFault /\ pc' = "raised" /\ ret' = <<>>)
             /\ ~ENABLED (NextFault /\ pc' # "raised")
    /\ pc = "raised"
          => /\ ret = <<>>
             /\ Count("decrypt") = 0
             /\ encrypted_message.key # encryption
             /\ ~ENABLED NextFault

\* A cycle that has ended in a decryption failure.
C6_Witness == pc = "raised" /\ max_amplitude # <<>> /\ Count("hop") = 1

\* C7: a cycle that returns has compared the decrypted text with the
\* original message.
C7_ReturnOnlyAfterComparison ==
    pc = "returned" => \E i \in DOMAIN events : events[i] = "compare"

\* C8: a cycle is atomic: no state shows the channel changed by the cycle
\* while its Securing step has not completed.
C8_CycleAtomic ==
    Changes > 0 => (Count("encrypt") = 1 /\ Count("decrypt") = 1)

\* C9: from a current channel c, switch_channel can leave exactly the
\* channels other than c, and so can frequency_hopping: its first draw and
\* each redraw can give any channel, and the loop is left with the drawn
\* channel exactly when it differs from c.
C9_HopAndSwitchSameTargets ==
    /\ \A from \in SwitchPcs : \A to \in {"classify", "hop_draw", "encrypt"} :
          \A d \in 1..5 :
             (pc = from /\ ENABLED SwitchChannel(from, to)) =>
                ((ENABLED (SwitchChannel(from, to) /\ current_channel' = d))
                    <=> d # current_channel)
    /\ pc = "hop_draw" =>
          \A d \in 1..5 : ENABLED (HopDraw /\ new_channel' = d)
    /\ pc = "hop_loop" =>
          \A d \in 1..5 :
             /\ (ENABLED (HopAssign /\ current_channel' = d))
                   <=> (d = new_channel /\ d # current_channel)
             /\ new_channel = current_channel
                   => ENABLED (HopRedraw /\ new_channel' = d)

\* The hop about to leave the loop in a cycle that has also switched.
C9_Witness ==
    /\ pc = "hop_loop"
    /\ new_channel # current_channel
    /\ Count("switch") >= 1

\* C10: frequency_hopping redraws while the draw equals the current channel
\* and may draw the current channel again; with fair draws the loop is left
\* and the cycle reaches the Securing step.
C10_HopTerminatesUnderFairDraws ==
    /\ []((pc = "hop_loop" /\ new_channel = current_channel)
            => /\ ~ENABLED HopAssign
               /\ ENABLED (HopRedraw /\ new_channel' = current_channel))
    /\ (pc \in {"hop_draw", "hop_loop"}) ~> (pc = "encrypt")

\* The loop of frequency_hopping entered: the first draw gave the current channel.
C10_Witness ==
    /\ pc = "hop_loop"
    /\ new_channel = current_channel
    /\ Count("hop") = 0

====
